---- MODULE Spec2Model ----
(***************************************************************************)
(* The phone book of src/phonebook.py: the Contact value object and the    *)
(* PhoneBook store (contacts, next_id, modified, filename) together with   *)
(* the files it loads from and saves to.                                   *)
(*                                                                         *)
(* Strings are sequences of one-character strings, so that str.strip() is  *)
(* computed and not assumed.  A JSON object is a record whose DOMAIN is    *)
(* the set of its keys, as a Python dict.                                  *)
(***************************************************************************)
EXTENDS Integers, Sequences, FiniteSets, TLC

VARIABLES
    filename,   \* PhoneBook.filename
    contacts,   \* PhoneBook.contacts: sequence of Contact
    next_id,    \* PhoneBook.next_id
    modified,   \* PhoneBook.modified
    disk,       \* the file system: path -> file content
    ret,        \* the last operation and what it reported
    saved,      \* paths whose present content a successful save wrote
    trip,       \* how far a load, save, load of one file has come: 1 after a
                \* successful load of an existing file, 2 after a successful
                \* save right after it, 3 after a successful load of the same
                \* path right after that, 0 otherwise
    alloc       \* the ids create has handed out, in the runs that record
                \* them: whether they are recorded, the largest one so far,
                \* and the largest one since a load last replaced the store

vars == <<filename, contacts, next_id, modified, disk, ret, saved, trip,
          alloc>>

----------------------------------------------------------------------------
(* The record of the ids handed out *)

NotRecorded == [on |-> FALSE, ever |-> 0, since |-> 0]
Recorded == [on |-> TRUE, ever |-> 0, since |-> 0]

\* line 168: create_contact hands out the id n
alloc_after_create(a, n) ==
    IF a.on
    THEN [a EXCEPT !.ever = IF n > @ THEN n ELSE @,
                   !.since = IF n > @ THEN n ELSE @]
    ELSE a

\* lines 79-98: a load that goes through replaces the contacts and next_id
alloc_after_load(a, replaced) ==
    IF a.on /\ replaced THEN [a EXCEPT !.since = 0] ELSE a

----------------------------------------------------------------------------
(* Bounds of the model *)

\* create_contact is explored while next_id <= MaxId
MaxId == 2
\* the files present at start hold at most MaxFileLen entries
MaxFileLen == 2
\* ... whose integer ids are 1..MaxFileId
MaxFileId == 2

----------------------------------------------------------------------------
(* Values *)

\* Python's None as the value of Contact.id (JSON null, or no "id" key)
None == -1
\* an id that is a JSON string, such as "7": Python orders it against no int
\* and adds no int to it
StrId == -2
IsInt(i) == i >= 0

\* a JSON value that is no string (null, a number) where a string is expected
NonStr == <<"null">>

Whitespace == {" "}

RECURSIVE lstrip(_)
lstrip(s) == IF s # <<>> /\ Head(s) \in Whitespace THEN lstrip(Tail(s)) ELSE s

RECURSIVE rstrip(_)
rstrip(s) ==
    IF s # <<>> /\ s[Len(s)] \in Whitespace
    THEN rstrip(SubSeq(s, 1, Len(s) - 1))
    ELSE s

\* str.strip()
strip(s) == rstrip(lstrip(s))

\* dict.get(key, default)
get(data, key, default) == IF key \in DOMAIN data THEN data[key] ELSE default

RECURSIVE SeqMax(_)
SeqMax(s) ==
    IF Len(s) = 1 THEN s[1]
    ELSE LET m == SeqMax(Tail(s)) IN IF s[1] > m THEN s[1] ELSE m

----------------------------------------------------------------------------
(* Contact *)

\* Contact.__init__
Contact(name, phone, comment, contact_id) ==
    [id |-> contact_id,
     name |-> strip(name),
     phone |-> strip(phone),
     comment |-> strip(comment)]

\* line 24 writing no id
to_dict_without_id(c) ==
    [id |-> None, name |-> c.name, phone |-> c.phone, comment |-> c.comment]

\* Contact.to_dict
to_dict(c) ==
    [id |-> c.id, name |-> c.name, phone |-> c.phone, comment |-> c.comment]

\* Contact.from_dict raises ValueError: a required key is missing
from_dict_ValueError(data) ==
    "name" \notin DOMAIN data \/ "phone" \notin DOMAIN data

\* Contact.from_dict raises AttributeError: a value without strip()
from_dict_AttributeError(data) ==
    /\ ~from_dict_ValueError(data)
    /\ \/ data["name"] = NonStr
       \/ data["phone"] = NonStr
       \/ get(data, "comment", <<>>) = NonStr

\* Contact.from_dict, when it raises nothing
from_dict(data) ==
    Contact(data["name"], data["phone"],
            get(data, "comment", <<>>), get(data, "id", None))

----------------------------------------------------------------------------
(* Files *)

DefaultPath == "phonebook.json"
Paths == {DefaultPath, "other.json"}

Absent == [kind |-> "absent"]
\* text that json.load rejects (also: an empty or half-written file)
Corrupt == [kind |-> "corrupt"]
\* JSON that is no object, or whose "contacts" is no list
BadShape == [kind |-> "badshape"]
JsonFile(entries) == [kind |-> "json", contacts |-> entries]

\* the record with the keys of both
Merge(d, e) ==
    [k \in DOMAIN d \cup DOMAIN e |-> IF k \in DOMAIN d THEN d[k] ELSE e[k]]

\* entries from_dict accepts: with and without "id" and "comment", with text
\* to strip, with an id that is a string
GoodEntries ==
    {[name |-> <<" ", "a">>, phone |-> <<"1">>],
     [id |-> StrId, name |-> <<"a">>, phone |-> <<"1">>]}
        \cup {[id |-> i, name |-> <<"b">>, phone |-> <<"2", " ">>,
               comment |-> <<"c">>] : i \in 1..MaxFileId}

\* entries from_dict refuses: without "phone", without "name", with a name
\* that is no string
BadEntries ==
    {[id |-> 1, name |-> <<"a">>],
     [phone |-> <<"1">>],
     [id |-> 2, name |-> NonStr, phone |-> <<"1">>]}

FileEntries == GoodEntries \cup BadEntries

SeqsUpTo(S, n) == UNION {[1..k -> S] : k \in 0..n}

\* the files load_from_file may meet
InitFiles ==
    {Absent, Corrupt, BadShape}
        \cup {JsonFile(es) : es \in SeqsUpTo(FileEntries, MaxFileLen)}

\* the files of the runs about the texts of the records: none, one whose
\* name is blank, one whose phone is empty
FieldFiles ==
    {Absent,
     JsonFile(<<[name |-> <<" ">>, phone |-> <<"1">>]>>),
     JsonFile(<<[id |-> 1, name |-> <<"A">>, phone |-> <<>>,
                 comment |-> <<"b">>]>>)}

\* the files of the runs that exercise every operation of the store: none,
\* one whose record needs an id, one whose record has an id
StartFiles ==
    {Absent,
     JsonFile(<<[name |-> <<" ", "a">>, phone |-> <<"1">>]>>),
     JsonFile(<<[id |-> MaxFileId, name |-> <<"b">>, phone |-> <<"1">>,
                 comment |-> <<"c">>]>>)}

----------------------------------------------------------------------------
(* PhoneBook.load_from_file *)

\* line 77 leaving the loop (break) where it goes on to the next entry
RECURSIVE contacts_list_stops(_)
contacts_list_stops(entries) ==
    IF entries = <<>> \/ from_dict_ValueError(Head(entries)) THEN <<>>
    ELSE <<from_dict(Head(entries))>> \o contacts_list_stops(Tail(entries))

\* lines 71-77: the contacts of the entries from_dict accepts, in file order
RECURSIVE contacts_list(_)
contacts_list(entries) ==
    IF entries = <<>> THEN <<>>
    ELSE IF from_dict_ValueError(Head(entries))
         THEN contacts_list(Tail(entries))
         ELSE <<from_dict(Head(entries))>> \o contacts_list(Tail(entries))

\* lines 73-77 catch ValueError and KeyError only: any other error of an
\* entry leaves the loop and the try block
entries_raise(entries) ==
    \E i \in 1..Len(entries) : from_dict_AttributeError(entries[i])

\* line 85
ids_with_values(cs) ==
    SelectSeq([i \in 1..Len(cs) |-> cs[i].id], LAMBDA v : v # None)

\* lines 86-87: max() over ids of mixed types, or max(...) + 1 on a string,
\* raises TypeError
ids_raise(cs) == \E i \in 1..Len(cs) : cs[i].id = StrId

\* numbering that starts at 1 whatever the file holds
first_next_id_from_one(cs) == 1

\* lines 83-89 and 97-98
first_next_id(cs) ==
    IF ids_with_values(cs) # <<>> THEN SeqMax(ids_with_values(cs)) + 1 ELSE 1

\* lines 92-95: ids for the contacts without one, in iteration order
RECURSIVE assign_ids(_, _)
assign_ids(cs, n) ==
    IF cs = <<>> THEN [contacts |-> <<>>, next_id |-> n]
    ELSE IF Head(cs).id = None
         THEN LET r == assign_ids(Tail(cs), n + 1)
              IN  [contacts |-> <<[Head(cs) EXCEPT !.id = n]>> \o r.contacts,
                   next_id |-> r.next_id]
         ELSE LET r == assign_ids(Tail(cs), n)
              IN  [contacts |-> <<Head(cs)>> \o r.contacts,
                   next_id |-> r.next_id]

\* lines 82, 96
modified_by_id_assignment(cs) == \E i \in 1..Len(cs) : cs[i].id = None

\* lines 100-102
modified_after_load(cs, was) ==
    IF modified_by_id_assignment(cs) THEN was ELSE FALSE

\* what load_from_file returns and leaves in the store, for the file f, the
\* store s = [contacts, next_id, modified] and whether reading f fails
load_from_file(f, io_error, s) ==
    LET same(ok) == [ok |-> ok, contacts |-> s.contacts,
                     next_id |-> s.next_id, modified |-> s.modified]
    IN
    IF f.kind = "absent" THEN same(TRUE)                      \* lines 63-65
    ELSE IF io_error THEN same(FALSE)                         \* lines 109-111
    ELSE IF f.kind = "corrupt" THEN same(FALSE)               \* lines 106-108
    ELSE IF f.kind = "badshape" THEN same(FALSE)              \* lines 109-111
    ELSE IF entries_raise(f.contacts) THEN same(FALSE)        \* lines 109-111
    ELSE LET cs == contacts_list(f.contacts) IN
         IF ids_raise(cs)
         THEN \* line 79 has run, lines 87-102 have not
              [ok |-> FALSE, contacts |-> cs,
               next_id |-> s.next_id, modified |-> s.modified]
         ELSE LET r == assign_ids(cs, first_next_id(cs)) IN
              [ok |-> TRUE, contacts |-> r.contacts, next_id |-> r.next_id,
               modified |-> modified_after_load(cs, s.modified)]

\* main, choice "1" (lines 377-381), and the load at start (lines 365-367):
\* an empty input keeps the path
OpenFile(input, io_error) ==
    LET path == IF input # "" THEN input ELSE filename
        r == load_from_file(disk[path], io_error,
                 [contacts |-> contacts, next_id |-> next_id,
                  modified |-> modified])
    IN  /\ filename' = path
        /\ contacts' = r.contacts
        /\ next_id' = r.next_id
        /\ modified' = r.modified
        /\ ret' = [op |-> "load", ok |-> r.ok,
                   io |-> io_error /\ disk[path].kind # "absent"]
        /\ trip' = IF r.ok /\ disk[path].kind = "json"
                   THEN IF trip = 2 /\ path = filename THEN 3 ELSE 1
                   ELSE 0
        /\ alloc' = alloc_after_load(alloc, r.ok /\ disk[path].kind = "json")
        /\ UNCHANGED <<disk, saved>>

----------------------------------------------------------------------------
(* PhoneBook.save_to_file *)

\* lines 116-119: the "contacts" of the saved object
saved_contacts(cs) == [i \in 1..Len(cs) |-> to_dict(cs[i])]

\* lines 121-122 open the file for writing, which empties it, and write into
\* it: an error of open() leaves the file, an error while writing leaves a
\* part of the text
file_after_failed_save(old, opened) == IF opened THEN Corrupt ELSE old

\* line 124 left out
modified_kept_by_save(was) == was

\* line 124
modified_after_save(was) == FALSE

\* lines 116-126
SaveOk ==
    /\ disk' = [disk EXCEPT ![filename] = JsonFile(saved_contacts(contacts))]
    /\ modified' = modified_after_save(modified)
    /\ ret' = [op |-> "save", ok |-> TRUE, io |-> FALSE]
    /\ saved' = saved \cup {filename}
    /\ trip' = IF trip \in {1, 3} THEN 2 ELSE 0
    /\ UNCHANGED <<filename, contacts, next_id, alloc>>

\* a failed save that runs line 124 all the same
SaveFailsAndClears(opened) ==
    /\ disk' = [disk EXCEPT
                   ![filename] = file_after_failed_save(disk[filename], opened)]
    /\ modified' = FALSE
    /\ ret' = [op |-> "save", ok |-> FALSE, io |-> TRUE]
    /\ saved' = IF opened THEN saved \ {filename} ELSE saved
    /\ trip' = 0
    /\ UNCHANGED <<filename, contacts, next_id, alloc>>

\* lines 128-130
SaveFails(opened) ==
    /\ disk' = [disk EXCEPT
                   ![filename] = file_after_failed_save(disk[filename], opened)]
    /\ ret' = [op |-> "save", ok |-> FALSE, io |-> TRUE]
    /\ saved' = IF opened THEN saved \ {filename} ELSE saved
    /\ trip' = 0
    /\ UNCHANGED <<filename, contacts, next_id, modified, alloc>>

SaveToFile == SaveOk \/ \E opened \in BOOLEAN : SaveFails(opened)

----------------------------------------------------------------------------
(* What the user types *)

NameInputs == {<<>>, <<" ", "a">>}
PhoneInputs == {<<>>, <<"1">>}
CommentInputs == {<<>>}
NewNameInputs == {<<>>, <<"b", " ">>}
NewPhoneInputs == {<<>>}
NewCommentInputs == {<<>>}
CrudNames == {<<>>, <<" ">>, <<" ", "a">>, <<"b", " ">>}
CrudPhones == {<<>>, <<" ">>, <<"1">>, <<" ", "2">>}
CrudComments == {<<>>, <<"c">>}
FieldNames == {<<>>, <<"A", "b">>, <<"b">>}
FieldPhones == {<<>>, <<"1">>}
FieldComments == {<<>>, <<"B", "a">>}
FieldNewNames == {<<>>, <<"b">>}
\* the search menu: by name, by phone, by comment, all fields, no such choice
Choices == {"1", "2", "3", "4", "5"}
Terms == {<<>>, <<" ">>, <<"a">>, <<"B">>, <<"b", "A">>, <<"1">>,
          <<"a", "b", " ">>}
\* the numbers typed as an id
IdInputs == 1..(MaxId + 1)
Confirmations == {"y", "n"}

\* an operation that reports a rejection and changes nothing
Rejected(op) ==
    /\ ret' = [op |-> op, ok |-> FALSE, io |-> FALSE]
    /\ trip' = 0
    /\ UNCHANGED <<filename, contacts, next_id, modified, disk, saved,
                   alloc>>

----------------------------------------------------------------------------
(* PhoneBook.create_contact *)

\* lines 156-159 left out: only the name is looked at
create_rejects_name_only(name, phone) == strip(name) = <<>>

\* lines 151-159
create_rejects(name, phone) == strip(name) = <<>> \/ strip(phone) = <<>>

\* the new contact numbered by the length of the list
created_numbered_by_length(name, phone, comment) ==
    Contact(strip(name), strip(phone), strip(comment), Len(contacts) + 1)

\* lines 167-172
created(name, phone, comment) ==
    Contact(strip(name), strip(phone), strip(comment), next_id)

\* the increment of line 175 left out
next_id_not_incremented(n) == n

\* line 175
next_id_after_create(n) == n + 1

\* lines 151-176
CreateContact(name, phone, comment) ==
    IF create_rejects(name, phone)
    THEN Rejected("create")
    ELSE /\ next_id <= MaxId
         /\ contacts' = Append(contacts, created(name, phone, comment))
         /\ next_id' = next_id_after_create(next_id)
         /\ modified' = TRUE
         /\ ret' = [op |-> "create", ok |-> TRUE, io |-> FALSE]
         /\ trip' = 0
         /\ alloc' = alloc_after_create(alloc, next_id)
         /\ UNCHANGED <<filename, disk, saved>>

----------------------------------------------------------------------------
(* PhoneBook._find_by_id *)

\* a search that falls back on the first contact
_find_by_id_or_first(cs, contact_id) ==
    IF \E i \in 1..Len(cs) : cs[i].id = contact_id
    THEN CHOOSE i \in 1..Len(cs) : cs[i].id = contact_id
    ELSE 1

\* lines 326-329: the place of the first contact with the id, 0 for None
_find_by_id(cs, contact_id) ==
    IF \E i \in 1..Len(cs) : cs[i].id = contact_id
    THEN CHOOSE i \in 1..Len(cs) :
             /\ cs[i].id = contact_id
             /\ \A j \in 1..(i - 1) : cs[j].id # contact_id
    ELSE 0

----------------------------------------------------------------------------
(* PhoneBook.edit_contact *)

\* every input overwrites the field, the empty ones too
edited_all_fields(c, new_name, new_phone, new_comment) ==
    [id |-> c.id, name |-> strip(new_name), phone |-> strip(new_phone),
     comment |-> strip(new_comment)]

\* lines 265-277: an empty input keeps the field
edited(c, new_name, new_phone, new_comment) ==
    [id |-> c.id,
     name |-> IF strip(new_name) # <<>> THEN strip(new_name) ELSE c.name,
     phone |-> IF strip(new_phone) # <<>> THEN strip(new_phone) ELSE c.phone,
     comment |-> IF strip(new_comment) # <<>> THEN strip(new_comment)
                 ELSE c.comment]

\* line 279
modified_after_edit(old, new, was) == TRUE

EditContact(contact_id, new_name, new_phone, new_comment) ==
    LET i == _find_by_id(contacts, contact_id) IN
    IF contacts = <<>> \/ i = 0                     \* lines 243-245, 257-259
    THEN Rejected("edit")
    ELSE LET c == edited(contacts[i], new_name, new_phone, new_comment) IN
         /\ contacts' = [contacts EXCEPT ![i] = c]
         /\ modified' = modified_after_edit(contacts[i], c, modified)
         /\ ret' = [op |-> "edit", ok |-> TRUE, io |-> FALSE]
         /\ trip' = 0
         /\ UNCHANGED <<filename, next_id, disk, saved, alloc>>

----------------------------------------------------------------------------
(* PhoneBook.delete_contact *)

\* line 313: list.remove of the contact found
removed(cs, i) == SubSeq(cs, 1, i - 1) \o SubSeq(cs, i + 1, Len(cs))

DeleteContact(contact_id, confirm) ==
    LET i == _find_by_id(contacts, contact_id) IN
    IF contacts = <<>> \/ i = 0 \/ confirm # "y"    \* lines 289-291, 303-305,
    THEN Rejected("delete")                          \* 316-317
    ELSE /\ contacts' = removed(contacts, i)
         /\ modified' = TRUE
         /\ ret' = [op |-> "delete", ok |-> TRUE, io |-> FALSE]
         /\ trip' = 0
         /\ UNCHANGED <<filename, next_id, disk, saved, alloc>>

\* lines 250-252 and 296-298: the id typed is no number
IdNotDigits == Rejected("edit") \/ Rejected("delete")

----------------------------------------------------------------------------
(* PhoneBook.find_contact *)

\* str.lower(), on the letters of the model
lower(s) ==
    [i \in 1..Len(s) |->
        IF s[i] = "A" THEN "a" ELSE IF s[i] = "B" THEN "b" ELSE s[i]]

\* sub in s
contains(s, sub) ==
    \E k \in 0..(Len(s) - Len(sub)) : SubSeq(s, k + 1, k + Len(sub)) = sub

\* line 200 without lower()
search_term_as_typed(input) == strip(input)

\* line 200
search_term(input) == lower(strip(input))

\* lines 208-225: choices "1" to "3" look at one field, "4" and any other
\* choice at all three
found(choice, c, term) ==
    IF choice = "1" THEN contains(lower(c.name), term)
    ELSE IF choice = "2" THEN contains(lower(c.phone), term)
    ELSE IF choice = "3" THEN contains(lower(c.comment), term)
    ELSE \/ contains(lower(c.name), term)
         \/ contains(lower(c.phone), term)
         \/ contains(lower(c.comment), term)

\* lines 206-225
results(choice, term) ==
    SelectSeq(contacts, LAMBDA c : found(choice, c, term))

\* lines 185-239: nothing of the store is assigned; an empty store (lines
\* 187-189) and an empty term (lines 202-204) end the search with no list
FindContact(choice, input) ==
    /\ ret' = IF contacts = <<>> \/ search_term(input) = <<>>
              THEN [op |-> "find", ok |-> FALSE, io |-> FALSE,
                    results |-> <<>>]
              ELSE [op |-> "find", ok |-> TRUE, io |-> FALSE,
                    results |-> results(choice, search_term(input))]
    /\ trip' = 0
    /\ UNCHANGED <<filename, contacts, next_id, modified, disk, saved,
                   alloc>>

\* PhoneBook.has_unsaved_changes
has_unsaved_changes == modified

----------------------------------------------------------------------------
(* The program *)

\* PhoneBook.__init__, with the file f at the default path
Start(f) ==
    /\ filename = DefaultPath
    /\ contacts = <<>>
    /\ next_id = 1
    /\ modified = FALSE
    /\ disk = [p \in Paths |-> IF p = DefaultPath THEN f ELSE Absent]
    /\ ret = [op |-> "init", ok |-> TRUE, io |-> FALSE]
    /\ saved = {}
    /\ trip = 0
    /\ alloc \in {NotRecorded, Recorded}

\* main, lines 365-369: the file at the default path is loaded if it exists
Startup ==
    /\ ret.op = "init"
    /\ IF disk[filename].kind # "absent"
       THEN \E io_error \in BOOLEAN : OpenFile("", io_error)
       ELSE /\ ret' = [op |-> "start", ok |-> TRUE, io |-> FALSE]
            /\ UNCHANGED <<filename, contacts, next_id, modified, disk,
                           saved, trip, alloc>>

\* main, lines 371-375: the menu is shown once the program has started
Started == ret.op # "init"

Load == \E input \in Paths \cup {""}, io_error \in BOOLEAN :
            OpenFile(input, io_error)

Create(names, phones, comments) ==
    \E name \in names, phone \in phones, comment \in comments :
        CreateContact(name, phone, comment)

Edit(names, phones, comments) ==
    \E contact_id \in IdInputs, new_name \in names, new_phone \in phones,
       new_comment \in comments :
        EditContact(contact_id, new_name, new_phone, new_comment)

Delete == \E contact_id \in IdInputs, confirm \in Confirmations :
              DeleteContact(contact_id, confirm)

\* every operation of the store
Init == alloc = NotRecorded /\ \E f \in StartFiles : Start(f)

Next ==
    \/ Startup
    \/ Started /\ Load
    \/ Started /\ SaveToFile
    \/ Started /\ Create(NameInputs, PhoneInputs, CommentInputs)
    \/ Started /\ Edit(NewNameInputs, NewPhoneInputs, NewCommentInputs)
    \/ Started /\ Delete
    \/ Started /\ IdNotDigits

Spec == Init /\ [][Next]_vars

\* loading and saving, over every file of InitFiles
InitLoad == alloc = NotRecorded /\ \E f \in InitFiles : Start(f)

NextLoad ==
    \/ Startup
    \/ Started /\ Load
    \/ Started /\ SaveToFile
    \/ Started /\ Delete

SpecLoad == InitLoad /\ [][NextLoad]_vars

\* create, edit and delete on a store that starts empty, over more inputs
InitCrud == alloc = NotRecorded /\ Start(Absent)

NextCrud ==
    \/ Startup
    \/ Started /\ Create(CrudNames, CrudPhones, CrudComments)
    \/ Started /\ Edit(CrudNames, CrudPhones, CrudComments)
    \/ Started /\ Delete
    \/ Started /\ IdNotDigits

SpecCrud == InitCrud /\ [][NextCrud]_vars

\* the texts of the records: create, edit, delete, load and search
Find == \E choice \in Choices, input \in Terms : FindContact(choice, input)

InitFields == alloc = NotRecorded /\ \E f \in FieldFiles : Start(f)

NextFields ==
    \/ Startup
    \/ Started /\ Load
    \/ Started /\ Create(FieldNames, FieldPhones, FieldComments)
    \/ Started /\ Edit(FieldNewNames, NewPhoneInputs, FieldComments)
    \/ Started /\ Delete
    \/ Started /\ Find

SpecFields == InitFields /\ [][NextFields]_vars

\* the ids handed out, recorded: every operation of the store on its file
InitAlloc == alloc = Recorded /\ \E f \in StartFiles : Start(f)

NextAlloc ==
    \/ Startup
    \/ Started /\ \E io_error \in BOOLEAN : OpenFile("", io_error)
    \/ Started /\ SaveToFile
    \/ Started /\ Create(NameInputs, PhoneInputs, CommentInputs)
    \/ Started /\ Edit(NewNameInputs, NewPhoneInputs, NewCommentInputs)
    \/ Started /\ Delete

SpecAlloc == InitAlloc /\ [][NextAlloc]_vars

----------------------------------------------------------------------------
(* Properties *)

Ids(cs) == [i \in 1..Len(cs) |-> cs[i].id]
NoRepeat(s) == \A i, j \in 1..Len(s) : i # j => s[i] # s[j]

\* C1: from an empty store, after any successful or rejected create, update
\* and delete, no two records of the store have the same id and next_id is
\* greater than the id of every record.
C1_UniqueIdsBelowNextId ==
    /\ NoRepeat(Ids(contacts))
    /\ \A i \in 1..Len(contacts) :
           IsInt(contacts[i].id) /\ contacts[i].id < next_id

\* two records are in the store and one has just been updated
C1_Witness == Len(contacts) = 2 /\ ret.op = "edit" /\ ret.ok

\* C2 as claimed: after a load of an existing file that reports success,
\* every record has an id and no two records share one, whatever the file
\* holds.
C2_LoadedIdsUnique ==
    (ret.op = "load" /\ ret.ok /\ disk[filename].kind = "json")
        => /\ \A i \in 1..Len(contacts) : contacts[i].id # None
           /\ NoRepeat(Ids(contacts))

\* C3 as claimed: a load that reports failure leaves the records, next_id
\* and the modified flag as they were.
C3_FailedLoadKeepsStore ==
    [][(ret'.op = "load" /\ ~ret'.ok)
           => UNCHANGED <<contacts, next_id, modified>>]_vars

\* C4 as claimed: a load from a path with no file reports success and leaves
\* no record and modified = FALSE.
C4_AbsentFileEmptiesStore ==
    (ret.op = "load" /\ disk[filename].kind = "absent")
        => ret.ok /\ contacts = <<>> /\ ~modified

\* C5: right after a successful save has_unsaved_changes() is false; a
\* successful create, update or delete makes it true; once true it stays
\* true until a successful save or load.
C5_SaveClearsChangeSets ==
    [][/\ (ret'.op = "save" /\ ret'.ok) => ~has_unsaved_changes'
       /\ (ret'.op \in {"create", "edit", "delete"} /\ ret'.ok)
              => has_unsaved_changes'
       /\ (has_unsaved_changes /\ ~has_unsaved_changes')
              => (ret'.op \in {"save", "load"} /\ ret'.ok)]_vars

\* a record has been created after a successful save
C5_Witness ==
    /\ ret.op = "create" /\ ret.ok /\ has_unsaved_changes
    /\ filename \in saved

\* the entries of a file that have both required keys
HasBoth(e) == {"name", "phone"} \subseteq DOMAIN e
\* ... and, of those, whether one has no id
LacksId(e) == HasBoth(e) /\ get(e, "id", None) = None

\* C6 as claimed: after a load of an existing file that reports success,
\* modified is true if the load gave an id to a record without one, and
\* false if it did not.
C6_DirtyIffIdAssigned ==
    (ret.op = "load" /\ ret.ok /\ disk[filename].kind = "json")
        => (modified <=>
               \E i \in 1..Len(disk[filename].contacts) :
                   LacksId(disk[filename].contacts[i]))

\* the records a file holds, as a load reads them
FileRecords(f) ==
    IF f.kind = "json" /\ ~entries_raise(f.contacts)
    THEN contacts_list(f.contacts)
    ELSE <<>>

\* C7 as claimed: once the program has started, modified is true exactly
\* when the records in memory differ from those of the file at the current
\* path.
C7_DirtyIffDiffers ==
    Started => (modified <=> contacts # FileRecords(disk[filename]))

EmptyStore == [contacts |-> <<>>, next_id |-> 1, modified |-> FALSE]

\* C8 as claimed: a save that fails leaves the file a successful save wrote
\* such that a load of it still yields the records saved.
C8_FailedSaveKeepsFile ==
    [][(ret'.op = "save" /\ ~ret'.ok /\ filename \in saved)
           => LET before == load_from_file(disk[filename], FALSE, EmptyStore)
                  after == load_from_file(disk'[filename], FALSE, EmptyStore)
              IN  after.ok /\ after.contacts = before.contacts]_vars

\* every value of the entry is of the type the file format gives its key
WellTyped(e) ==
    /\ "name" \in DOMAIN e => e["name"] # NonStr
    /\ "phone" \in DOMAIN e => e["phone"] # NonStr
    /\ "comment" \in DOMAIN e => e["comment"] # NonStr
    /\ "id" \in DOMAIN e => e["id"] # StrId

\* the contact c is the entry e of a file, its texts stripped
HoldsEntry(c, e) ==
    /\ c.name = strip(e["name"])
    /\ c.phone = strip(e["phone"])
    /\ c.comment = strip(get(e, "comment", <<>>))
    /\ get(e, "id", None) # None => c.id = e["id"]

\* C9: a load of a readable file whose entries are of the types of the file
\* format, some with "name" and "phone" and some without one of them,
\* reports success, and the store holds the entries with both keys, and
\* only them, in the order of the file.
C9_InvalidEntriesSkipped ==
    LET f == disk[filename] IN
    (/\ ret.op = "load" /\ ~ret.io /\ f.kind = "json"
     /\ \A i \in 1..Len(f.contacts) : WellTyped(f.contacts[i]))
        => LET both == SelectSeq(f.contacts, HasBoth) IN
           /\ ret.ok
           /\ Len(contacts) = Len(both)
           /\ \A i \in 1..Len(both) : HoldsEntry(contacts[i], both[i])

\* a load has kept some entries of the file and skipped others
C9_Witness ==
    /\ ret.op = "load" /\ ret.ok /\ disk[filename].kind = "json"
    /\ contacts # <<>>
    /\ Len(contacts) < Len(disk[filename].contacts)

\* C10: after a successful load of an existing file and a successful save,
\* a load of the same path that can read the file reports success and
\* leaves the records the first load produced: same ids, names, phones,
\* comments, same order.
C10_RoundTrip ==
    [][(trip = 2 /\ ret'.op = "load" /\ filename' = filename /\ ~ret'.io)
           => (ret'.ok /\ contacts' = contacts)]_vars

\* load, save and load again have run on a file of two records
C10_Witness == trip = 3 /\ Len(contacts) >= 2

\* C11: a create whose name or phone is empty once stripped is rejected and
\* leaves the records, next_id and the modified flag as they were.
C11_EmptyCreateRejected ==
    [][\A name \in CrudNames, phone \in CrudPhones, comment \in CrudComments :
           (/\ strip(name) = <<>> \/ strip(phone) = <<>>
            /\ CreateContact(name, phone, comment))
               => /\ ret'.op = "create" /\ ~ret'.ok
                  /\ UNCHANGED <<contacts, next_id, modified>>]_vars

\* a create has been rejected on a store that holds a record
C11_Witness == ret.op = "create" /\ ~ret.ok /\ contacts # <<>>

\* C12 as claimed: every record of the store has a name and a phone that
\* are not empty once stripped.
C12_NameAndPhoneNotEmpty ==
    \A i \in 1..Len(contacts) :
        strip(contacts[i].name) # <<>> /\ strip(contacts[i].phone) # <<>>

\* the letters x and y are the same but for their case
SameLetter(x, y) == x = y \/ {x, y} \in {{"a", "A"}, {"b", "B"}}

\* term is in text, whatever the case of the letters
ContainsIgnoringCase(text, term) ==
    \E k \in 0..(Len(text) - Len(term)) :
        \A i \in 1..Len(term) : SameLetter(text[k + i], term[i])

\* the record c matches term in the field the choice names
Selected(choice, c, term) ==
    \/ choice \in {"1", "4"} /\ ContainsIgnoringCase(c.name, term)
    \/ choice \in {"2", "4"} /\ ContainsIgnoringCase(c.phone, term)
    \/ choice \in {"3", "4"} /\ ContainsIgnoringCase(c.comment, term)

\* C13: for a term that is not empty (the text typed, stripped) and a field
\* among name, phone, comment and all, a search returns the records whose
\* field contains the term whatever the case, and only them, in the order of
\* the store; an empty term is rejected with no list; a search changes no
\* record, nor next_id, nor the modified flag.
C13_SearchSelectsInOrder ==
    [][ret'.op = "find" =>
       \A choice \in {"1", "2", "3", "4"}, input \in Terms :
           FindContact(choice, input)
               => /\ UNCHANGED <<contacts, next_id, modified>>
                  /\ IF strip(input) = <<>>
                     THEN ~ret'.ok /\ ret'.results = <<>>
                     ELSE /\ contacts # <<>> => ret'.ok
                          /\ ret'.results =
                                 SelectSeq(contacts,
                                     LAMBDA c :
                                         Selected(choice, c, strip(input)))
      ]_vars

\* a search has returned the second of two records, which holds the term in
\* capital letters
C13_Witness ==
    /\ ret.op = "find" /\ ret.ok
    /\ Len(contacts) = 2
    /\ contacts[1].name = <<"b">> /\ contacts[2].name = <<"A", "b">>
    /\ contacts[1].phone = <<"1">> /\ contacts[2].phone = <<"1">>
    /\ contacts[1].comment = <<>> /\ contacts[2].comment = <<>>
    /\ ret.results = <<contacts[2]>>

\* the largest number of a set of numbers that is not empty
Largest(S) == CHOOSE m \in S : \A n \in S : n <= m

\* C14: after a successful load of an existing file, the records that had an
\* id in the file keep it, the records that had none hold consecutive ids in
\* file order, from one more than the largest id of the file, or from 1 when
\* the file has no id, and next_id is one more than the largest id of the
\* store, or 1 when the store is empty.
C14_LoadNumbersRecords ==
    LET f == disk[filename] IN
    (ret.op = "load" /\ ret.ok /\ f.kind = "json")
        => LET valid == SelectSeq(f.contacts, HasBoth)
               given == {valid[i].id : i \in {j \in 1..Len(valid) :
                                                  ~LacksId(valid[j])}}
               base == IF given = {} THEN 1 ELSE Largest(given) + 1
               before(i) == Cardinality({j \in 1..(i - 1) : LacksId(valid[j])})
           IN  /\ Len(contacts) = Len(valid)
               /\ \A i \in 1..Len(valid) :
                      contacts[i].id = IF LacksId(valid[i])
                                       THEN base + before(i)
                                       ELSE valid[i].id
               /\ next_id = IF contacts = <<>> THEN 1
                            ELSE Largest({contacts[i].id :
                                             i \in 1..Len(contacts)}) + 1

\* a load has given a record without id the id after the largest id of a
\* file that holds the id MaxFileId
C14_Witness ==
    /\ ret.op = "load" /\ ret.ok /\ disk[filename].kind = "json"
    /\ \E i \in 1..Len(contacts) : contacts[i].id = MaxFileId + 1
    /\ \E i \in 1..Len(disk[filename].contacts) :
           ~LacksId(disk[filename].contacts[i])
           /\ HasBoth(disk[filename].contacts[i])

\* C15: a create that succeeds gives the new record the id that next_id held
\* before the call, puts it after the records of the store, adds one to
\* next_id, sets the modified flag, and leaves the records that were there
\* and their order as they were.
C15_CreateAppendsWithNextId ==
    [][(ret'.op = "create" /\ ret'.ok)
           => /\ Len(contacts') = Len(contacts) + 1
              /\ SubSeq(contacts', 1, Len(contacts)) = contacts
              /\ contacts'[Len(contacts) + 1].id = next_id
              /\ next_id' = next_id + 1
              /\ modified']_vars

\* a create has succeeded after the delete of the first record
C15_Witness ==
    /\ ret.op = "create" /\ ret.ok
    /\ Len(contacts) = 1 /\ contacts[1].id = 2

\* C16 as claimed: an update sets the modified flag when it changes a field
\* of the record and leaves the flag as it was when it changes none.
C16_DirtyOnlyWhenChanged ==
    [][(ret'.op = "edit" /\ ret'.ok)
           => modified' = IF contacts' # contacts THEN TRUE ELSE modified]_vars

\* C17: an update or a delete that names an id no record of the store has
\* is rejected and leaves the records, their order, next_id and the modified
\* flag as they were.
C17_UnknownIdRejected ==
    [][ret'.op \in {"edit", "delete"} =>
       \A contact_id \in IdInputs :
           (\A i \in 1..Len(contacts) : contacts[i].id # contact_id)
               => /\ \A new_name \in CrudNames, new_phone \in CrudPhones,
                        new_comment \in CrudComments :
                          EditContact(contact_id, new_name, new_phone,
                                      new_comment)
                              => /\ ~ret'.ok
                                 /\ UNCHANGED <<contacts, next_id, modified>>
                  /\ \A confirm \in Confirmations :
                          DeleteContact(contact_id, confirm)
                              => /\ ~ret'.ok
                                 /\ UNCHANGED <<contacts, next_id, modified>>
      ]_vars

\* a delete has been rejected on a store whose only record has id 2, in a
\* run where id 1 is no longer there to be named
C17_Witness ==
    /\ ret.op = "delete" /\ ~ret.ok
    /\ Len(contacts) = 1 /\ contacts[1].id = 2

\* the text of a field after an update that typed input for it
Updated(old, input) == IF strip(input) = <<>> THEN old ELSE strip(input)

\* C18: an update that succeeds changes, of the record with the id named,
\* the fields for which a text that is not empty was typed, and only them;
\* a delete that succeeds removes the record with the id named and only it;
\* the other records, the ids, the order and next_id stay as they were.
C18_OnlyTheNamedRecord ==
    [][(ret'.op \in {"edit", "delete"} /\ ret'.ok) =>
       \A contact_id \in IdInputs :
           /\ \A new_name \in CrudNames, new_phone \in CrudPhones,
                 new_comment \in CrudComments :
                  EditContact(contact_id, new_name, new_phone, new_comment)
                      => /\ next_id' = next_id
                         /\ Len(contacts') = Len(contacts)
                         /\ \A i \in 1..Len(contacts) :
                                IF contacts[i].id # contact_id
                                THEN contacts'[i] = contacts[i]
                                ELSE contacts'[i] =
                                       [id |-> contact_id,
                                        name |-> Updated(contacts[i].name,
                                                         new_name),
                                        phone |-> Updated(contacts[i].phone,
                                                          new_phone),
                                        comment |->
                                            Updated(contacts[i].comment,
                                                    new_comment)]
           /\ \A confirm \in Confirmations :
                  DeleteContact(contact_id, confirm)
                      => /\ next_id' = next_id
                         /\ Len(contacts') = Len(contacts) - 1
                         /\ contacts' =
                                SelectSeq(contacts,
                                          LAMBDA c : c.id # contact_id)
      ]_vars

\* an update has changed the name of the second of two records and kept its
\* phone
C18_Witness ==
    /\ ret.op = "edit" /\ ret.ok
    /\ Len(contacts) = 2
    /\ contacts[1].name = <<"a">>
    /\ contacts[2].name = <<"b">> /\ contacts[2].phone = <<"1">>

\* a delete has removed the first of two records
C18_WitnessDelete ==
    /\ ret.op = "delete" /\ ret.ok
    /\ Len(contacts) = 1 /\ contacts[1].id = 2

\* C19: a save that fails on an error of the file system reports the failure
\* and leaves the records, next_id and the modified flag as they were: the
\* flag is not cleared.
C19_FailedSaveKeepsStore ==
    [][\A opened \in BOOLEAN :
           SaveFails(opened)
               => /\ ret'.op = "save" /\ ~ret'.ok
                  /\ UNCHANGED <<contacts, next_id, modified>>]_vars

\* a save has failed on a store that holds a record and unsaved changes
C19_Witness ==
    /\ ret.op = "save" /\ ~ret.ok
    /\ contacts # <<>> /\ modified

\* C20 as claimed: whatever loads, saves, creates, updates and deletes have
\* run, a create never hands out an id that is less than or equal to an id
\* an earlier create handed out.
C20_IdsNeverHandedOutAgain ==
    [][(ret'.op = "create" /\ ret'.ok)
           => contacts'[Len(contacts')].id > alloc.ever]_vars

\* C20, amended: as long as no load replaces the store, a create never hands
\* out an id that is less than or equal to an id an earlier create handed
\* out, whatever saves, creates, updates and deletes run in between; a load
\* that goes through sets next_id from the ids of the file, so that an id
\* handed out before it can be handed out again.
C20_IdsIncreaseBetweenLoads ==
    [][(ret'.op = "create" /\ ret'.ok)
           => contacts'[Len(contacts')].id > alloc.since]_vars

\* a second create since the load has succeeded, after a delete
C20_Witness ==
    /\ ret.op = "create" /\ ret.ok
    /\ alloc.since = 2 /\ Len(contacts) = 1

====
